---- MODULE Spec2Model ----
(***************************************************************************)
(* Model of scripts/generate-icons.py: the padded resize                   *)
(* (resize_with_padding) and the icon set generation (generate_icons).     *)
(*                                                                         *)
(* Python's "/" on ints and floats and "*" on floats are IEEE-754 binary64 *)
(* operations rounded to nearest, ties to even; int() truncates.  They are *)
(* modelled bit-exactly on arbitrary-precision naturals, because the       *)
(* truncation in resize_with_padding makes the last bit of the quotient    *)
(* visible in the result.                                                  *)
(***************************************************************************)
EXTENDS Integers, Sequences, FiniteSets, TLC

(***************************************************************************)
(* Arbitrary-precision naturals: little-endian digit sequences in base     *)
(* 2^15 without leading zero digits; <<>> is zero.                         *)
(***************************************************************************)
BigBase == 32768

RECURSIVE BigOfInt(_)
BigOfInt(n) == IF n = 0 THEN <<>> ELSE <<n % BigBase>> \o BigOfInt(n \div BigBase)

RECURSIVE BigToInt(_)
BigToInt(a) == IF a = <<>> THEN 0 ELSE Head(a) + BigBase * BigToInt(Tail(a))

RECURSIVE BigCmpFrom(_, _, _)
BigCmpFrom(a, b, i) ==
    IF i = 0 THEN 0
    ELSE IF a[i] > b[i] THEN 1
    ELSE IF a[i] < b[i] THEN -1
    ELSE BigCmpFrom(a, b, i - 1)

BigCmp(a, b) ==
    IF Len(a) > Len(b) THEN 1
    ELSE IF Len(a) < Len(b) THEN -1
    ELSE BigCmpFrom(a, b, Len(a))

RECURSIVE BigStrip(_)
BigStrip(a) ==
    IF a = <<>> THEN a
    ELSE IF a[Len(a)] = 0 THEN BigStrip(SubSeq(a, 1, Len(a) - 1))
    ELSE a

\* a * k + c for a small multiplier k and carry c (k, c < 2^15)
RECURSIVE BigMulAdd(_, _, _)
BigMulAdd(a, k, c) ==
    IF a = <<>> THEN (IF c = 0 THEN <<>> ELSE <<c>>)
    ELSE LET v == Head(a) * k + c
         IN  <<v % BigBase>> \o BigMulAdd(Tail(a), k, v \div BigBase)

BigDouble(a) == BigMulAdd(a, 2, 0)

\* a - b - borrow, for a >= b + borrow
RECURSIVE BigSubRaw(_, _, _)
BigSubRaw(a, b, borrow) ==
    IF a = <<>> THEN <<>>
    ELSE LET bd == IF b = <<>> THEN 0 ELSE Head(b)
             v  == Head(a) - bd - borrow
         IN  <<(v + BigBase) % BigBase>> \o
             BigSubRaw(Tail(a), IF b = <<>> THEN b ELSE Tail(b), IF v < 0 THEN 1 ELSE 0)

BigSub(a, b) == BigStrip(BigSubRaw(a, b, 0))

\* <<floor(a / k), a % k>> for a small divisor k (k <= 2^15), from digit i down
RECURSIVE BigDivModSmallFrom(_, _, _, _)
BigDivModSmallFrom(a, k, i, rem) ==
    IF i = 0 THEN <<<<>>, rem>>
    ELSE LET v    == rem * BigBase + a[i]
             rest == BigDivModSmallFrom(a, k, i - 1, v % k)
         IN  <<rest[1] \o <<v \div k>>, rest[2]>>

BigDivModSmall(a, k) ==
    LET qr == BigDivModSmallFrom(a, k, Len(a), 0)
    IN  <<BigStrip(qr[1]), BigOfInt(qr[2])>>

BigDivSmall(a, k) == BigDivModSmall(a, k)[1]

BigHalve(a) == BigDivSmall(a, 2)

DigitBits == 15

Zeros(n) == [i \in 1..n |-> 0]

\* floor(a / 2^n)
BigShr(a, n) ==
    IF n \div DigitBits >= Len(a) THEN <<>>
    ELSE BigDivSmall(SubSeq(a, n \div DigitBits + 1, Len(a)), 2^(n % DigitBits))

\* a * 2^n
BigShl(a, n) ==
    IF a = <<>> THEN a
    ELSE Zeros(n \div DigitBits) \o BigMulAdd(a, 2^(n % DigitBits), 0)

RECURSIVE IntBitLen(_)
IntBitLen(n) == IF n = 0 THEN 0 ELSE 1 + IntBitLen(n \div 2)

\* number of bits of a
BigBitLen(a) ==
    IF a = <<>> THEN 0 ELSE DigitBits * (Len(a) - 1) + IntBitLen(a[Len(a)])

BigOdd(a) == a # <<>> /\ Head(a) % 2 = 1

BigInc(a) == BigMulAdd(a, 1, 1)

RECURSIVE BigAddRaw(_, _, _)
BigAddRaw(a, b, c) ==
    IF a = <<>> /\ b = <<>> THEN (IF c = 0 THEN <<>> ELSE <<c>>)
    ELSE LET ad == IF a = <<>> THEN 0 ELSE Head(a)
             bd == IF b = <<>> THEN 0 ELSE Head(b)
             v  == ad + bd + c
         IN  <<v % BigBase>> \o
             BigAddRaw(IF a = <<>> THEN a ELSE Tail(a),
                       IF b = <<>> THEN b ELSE Tail(b), v \div BigBase)

BigAdd(a, b) == BigAddRaw(a, b, 0)

RECURSIVE BigMul(_, _)
BigMul(a, b) ==
    IF a = <<>> \/ b = <<>> THEN <<>>
    ELSE LET rest == BigMul(a, Tail(b))
         IN  BigAdd(BigMulAdd(a, Head(b), 0),
                    IF rest = <<>> THEN rest ELSE <<0>> \o rest)

(***************************************************************************)
(* IEEE-754 binary64 values that occur here are positive and normal: a     *)
(* float is [m, e] with value m * 2^e.  A rounded result has a mantissa of *)
(* exactly MantBits bits.                                                  *)
(***************************************************************************)
MantBits == 53

TwoPowMant == BigShl(<<1>>, MantBits)

\* schoolbook binary division, j (<= DigitBits) steps: b is the divisor
\* aligned with the current bit; <<quotient bits, remainder, divisor after>>
RECURSIVE DivBits(_, _, _, _)
DivBits(q, r, b, j) ==
    IF j = 0 THEN <<q, r, b>>
    ELSE IF BigCmp(r, b) >= 0
         THEN DivBits(2 * q + 1, BigSub(r, b), BigHalve(b), j - 1)
         ELSE DivBits(2 * q, r, BigHalve(b), j - 1)

\* k quotient bits, DigitBits at a time: <<quotient, remainder>>
RECURSIVE DivChunks(_, _, _, _)
DivChunks(q, r, b, k) ==
    IF k = 0 THEN <<q, r>>
    ELSE LET j == IF k < DigitBits THEN k ELSE DigitBits
             c == DivBits(0, r, b, j)
         IN  DivChunks(BigMulAdd(q, 2^j, c[1]), c[2], c[3], k - j)

BigDivModLong(a, b) ==
    LET k == BigBitLen(a) - BigBitLen(b)
    IN  IF k < 0 THEN <<<<>>, a>> ELSE DivChunks(<<>>, a, BigShl(b, k), k + 1)

\* <<floor(a / b), a % b>> for b > 0
BigDivMod(a, b) ==
    IF Len(b) = 1 THEN BigDivModSmall(a, b[1]) ELSE BigDivModLong(a, b)

\* x with 2^x <= n / d < 2^(x + 1), given x0 = bits(n) - bits(d)
FloorLog2From(n, d, x0) ==
    IF BigCmp(IF x0 < 0 THEN BigShl(n, -x0) ELSE n,
              IF x0 > 0 THEN BigShl(d, x0) ELSE d) < 0
    THEN x0 - 1
    ELSE x0

FloorLog2(n, d) == FloorLog2From(n, d, BigBitLen(n) - BigBitLen(d))

\* c compares twice the remainder with the divisor: round up above the
\* half, and at the half when the quotient q is odd
RoundsUp(c, q) == c > 0 \/ (c = 0 /\ BigOdd(q))

\* the float q1 * 2^(-s), q1 having MantBits bits or being 2^MantBits
Normalized(q1, s) ==
    IF q1 = TwoPowMant
    THEN [m |-> BigHalve(q1), e |-> 1 - s]
    ELSE [m |-> q1, e |-> -s]

RoundNearestEven(qr, den, s) ==
    Normalized(IF RoundsUp(BigCmp(BigDouble(qr[2]), den), qr[1])
               THEN BigInc(qr[1])
               ELSE qr[1], s)

RoundQuotient(num, den, s) == RoundNearestEven(BigDivMod(num, den), den, s)

\* n / d rounded, floor(n * 2^s / d) having exactly MantBits bits
RoundScaled(n, d, s) ==
    RoundQuotient(IF s >= 0 THEN BigShl(n, s) ELSE n,
                  IF s >= 0 THEN d ELSE BigShl(d, -s), s)

\* n / d for naturals n, d > 0, rounded to nearest with ties to even
RoundDiv(n, d) == RoundScaled(n, d, (MantBits - 1) - FloorLog2(n, d))

FloatOfInt(n) == [m |-> BigOfInt(n), e |-> 0]

\* the float r scaled by 2^e
Scaled(r, e) == [m |-> r.m, e |-> r.e + e]

FloatDiv(a, b) == Scaled(RoundDiv(a.m, b.m), a.e - b.e)

FloatMul(a, b) == Scaled(RoundDiv(BigMul(a.m, b.m), <<1>>), a.e + b.e)

Min(x, y) == IF x < y THEN x ELSE y

\* a and b as naturals in units of 2^e, e the smaller exponent
FloatCmpAt(a, b, e) == BigCmp(BigShl(a.m, a.e - e), BigShl(b.m, b.e - e))

FloatGt(a, b) == FloatCmpAt(a, b, Min(a.e, b.e)) > 0

\* (mutant) round(x) in place of int(x): up when the bit below the unit is set
FloatTrunc_Rounds(a) ==
    IF a.e >= 0 THEN BigToInt(BigShl(a.m, a.e))
    ELSE BigToInt(BigShr(a.m, -a.e))
            + (IF BigOdd(BigShr(a.m, -a.e - 1)) THEN 1 ELSE 0)

\* int(x) for a positive float x
FloatTrunc(a) ==
    IF a.e >= 0 THEN BigToInt(BigShl(a.m, a.e)) ELSE BigToInt(BigShr(a.m, -a.e))

(***************************************************************************)
(* Program state.                                                          *)
(*   image, target_size, rz : one call of resize_with_padding, its inputs  *)
(*                            and its outcome                              *)
(*   the others             : runs of the script (generate_icons)          *)
(***************************************************************************)
VARIABLES image, target_size, rz,
          source_file, out_dir, files, unwritable,
          pc, i, img, exit_status, error, run, written, before

vars == <<image, target_size, rz, source_file, out_dir, files, unwritable,
          pc, i, img, exit_status, error, run, written, before>>

resize_vars == <<image, target_size, rz>>

run_vars == <<source_file, out_dir, files, unwritable,
              pc, i, img, exit_status, error, run, written, before>>

(***************************************************************************)
(* Pillow operations used by resize_with_padding.                          *)
(***************************************************************************)
\* image.resize((w, h), LANCZOS): Pillow refuses a size with a dimension
\* below 1 ("height and width must be > 0"); otherwise the copy has exactly
\* the requested size.
ImageResize(im, w, h) ==
    IF w < 1 \/ h < 1 THEN [raised |-> TRUE]
    ELSE [raised |-> FALSE, width |-> w, height |-> h, of |-> <<im.width, im.height>>]

\* (mutant) the resized copy handed back as it is, without a canvas around it
NewWithPaste_Unpadded(size, resized, x, y) ==
    [width  |-> resized.width,
     height |-> resized.height,
     box    |-> <<0, 0, resized.width, resized.height>>,
     of     |-> resized.of]

\* Image.new('RGBA', size, (0, 0, 0, 0)) followed by result.paste(resized, (x, y)):
\* a canvas of the given size, transparent outside the pasted box
\* (left, upper, right, lower), which holds the resized copy.
NewWithPaste(size, resized, x, y) ==
    [width  |-> size[1],
     height |-> size[2],
     box    |-> <<x, y, x + resized.width, y + resized.height>>,
     of     |-> resized.of]

(***************************************************************************)
(* resize_with_padding(image, target_size)                                 *)
(***************************************************************************)
\* the scaled size <<new_width, new_height>>
\* (mutant) the comparison inverted: scales to cover the target, not to fit it
ScaledFor_Cover(size, img_ratio, target_ratio) ==
    IF FloatGt(target_ratio, img_ratio)
    THEN <<size[1], FloatTrunc(FloatDiv(FloatOfInt(size[1]), img_ratio))>>
    ELSE <<FloatTrunc(FloatMul(FloatOfInt(size[2]), img_ratio)), size[2]>>

ScaledFor(size, img_ratio, target_ratio) ==
    IF FloatGt(img_ratio, target_ratio)
    THEN <<size[1], FloatTrunc(FloatDiv(FloatOfInt(size[1]), img_ratio))>>
    ELSE <<FloatTrunc(FloatMul(FloatOfInt(size[2]), img_ratio)), size[2]>>

ScaledSize(im, size) ==
    ScaledFor(size,
              FloatDiv(FloatOfInt(im.width), FloatOfInt(im.height)),
              FloatDiv(FloatOfInt(size[1]), FloatOfInt(size[2])))

\* (mutant) pasted at the origin, not centred
PasteOffset_Origin(target, new) == 0

PasteOffset(target, new) == (target - new) \div 2

\* the rest of the function, once new_width and new_height are computed
PadTo(im, size, new_width, new_height, resized) ==
    IF resized.raised
    THEN [raised |-> TRUE, new_width |-> new_width, new_height |-> new_height]
    ELSE [raised |-> FALSE, new_width |-> new_width, new_height |-> new_height,
          paste_x |-> PasteOffset(size[1], new_width),
          paste_y |-> PasteOffset(size[2], new_height),
          result  |-> NewWithPaste(size, resized,
                                   PasteOffset(size[1], new_width),
                                   PasteOffset(size[2], new_height))]

ResizeScaled(im, size, new) ==
    PadTo(im, size, new[1], new[2], ImageResize(im, new[1], new[2]))

resize_with_padding(im, size) == ResizeScaled(im, size, ScaledSize(im, size))

(***************************************************************************)
(* One call of resize_with_padding on inputs drawn from bounded sets.      *)
(***************************************************************************)
MaxWidth == 15
MaxHeight == 11

\* the inputs of the documented scenarios, beyond the bounded ranges
ScenarioInputs ==
    { <<1000, 500, 192, 192>>, <<1000, 1, 16, 16>>, <<100, 100, 16, 16>>,
      <<7, 10, 180, 180>>, <<500, 1000, 192, 192>> }

ResizeInputs ==
    ((1..MaxWidth) \X (1..MaxHeight) \X (1..MaxWidth) \X (1..MaxHeight))
        \cup ScenarioInputs

IdleRun ==
    /\ source_file = [kind |-> "missing"]
    /\ out_dir = "absent"
    /\ files = <<>>
    /\ unwritable = {}
    /\ pc = "exited"
    /\ i = 1
    /\ img = <<>>
    /\ exit_status = <<>>
    /\ error = "none"
    /\ run = 0
    /\ written = {}
    /\ before = [files |-> <<>>, out_dir |-> "absent"]

InitResize ==
    /\ \E in \in ResizeInputs :
          /\ image = [width |-> in[1], height |-> in[2]]
          /\ target_size = <<in[3], in[4]>>
    /\ rz = [called |-> FALSE]
    /\ IdleRun

CallResize ==
    /\ ~rz.called
    /\ rz' = [called |-> TRUE, out |-> resize_with_padding(image, target_size)]
    /\ UNCHANGED <<image, target_size>>
    /\ UNCHANGED run_vars

NextResize == CallResize

SpecResize == InitResize /\ [][NextResize]_vars

(***************************************************************************)
(* generate_icons(source_path, output_dir), run as the script's main.      *)
(***************************************************************************)
\* the sizes dict, in insertion order (the order the for loop visits it)
sizes ==
    << [filename |-> "icon-192.png",         size |-> <<192, 192>>],
       [filename |-> "icon-512.png",         size |-> <<512, 512>>],
       [filename |-> "apple-touch-icon.png", size |-> <<180, 180>>] >>

favicon_sizes == << <<16, 16>>, <<32, 32>>, <<48, 48>> >>

FaviconName == "favicon.ico"

FileNames == {sizes[k].filename : k \in 1..Len(sizes)} \cup {FaviconName}

Absent == [format |-> "absent"]
Stale  == [format |-> "stale"]

\* resized.save(path, 'PNG', optimize=True): the file holds the encoded canvas
PngFile(canvas) == [format |-> "PNG", frames |-> <<canvas>>]

SizeLess(a, b) == a[1] < b[1] \/ (a[1] = b[1] /\ a[2] < b[2])

\* sorted(set(sizes)) on (width, height) tuples
RECURSIVE SortedSizes(_)
SortedSizes(S) ==
    IF S = {} THEN <<>>
    ELSE LET least == CHOOSE a \in S : \A b \in S \ {a} : SizeLess(a, b)
         IN  <<least>> \o SortedSizes(S \ {least})

IcoMaxSize == 256

\* Pillow's ICO writer, im.save(path, format='ICO', sizes=..., append_images=...):
\* a requested size larger than im itself (or than 256) is skipped; each
\* remaining size, in sorted order, is written from the provided image
\* (im or one of append_images) of exactly that size, else from a scaled
\* copy of im.
IcoFrames(im, requested, append_images) ==
    LET provided == <<im>> \o append_images
        kept     == SelectSeq(SortedSizes({requested[k] : k \in 1..Len(requested)}),
                              LAMBDA sz : /\ sz[1] <= im.width
                                          /\ sz[2] <= im.height
                                          /\ sz[1] <= IcoMaxSize
                                          /\ sz[2] <= IcoMaxSize)
        FrameFor(sz) ==
            LET same == SelectSeq(provided,
                                  LAMBDA p : p.width = sz[1] /\ p.height = sz[2])
            IN  IF same # <<>> THEN same[1]
                ELSE [width |-> sz[1], height |-> sz[2],
                      box |-> <<0, 0, sz[1], sz[2]>>, of |-> im.of]
    IN  [k \in 1..Len(kept) |-> FrameFor(kept[k])]

IcoFile(im, requested, append_images) ==
    [format |-> "ICO", frames |-> IcoFrames(im, requested, append_images)]

\* (mutant) the exception swallowed: the run goes on to the next step
Raise_Swallowed(nxt, kind) ==
    /\ pc' = nxt
    /\ error' = kind
    /\ UNCHANGED exit_status

\* An exception nobody catches ends the interpreter with status 1; nxt is
\* the step the run would have gone on to.
Raise(nxt, kind) ==
    /\ pc' = "exited"
    /\ exit_status' = <<1>>
    /\ error' = kind

Continue(nxt) ==
    /\ pc' = nxt
    /\ UNCHANGED <<exit_status, error>>

\* (mutant) the directory is not created
MkdirResult_Skipped(d) == d

\* output.mkdir(parents=True, exist_ok=True)
MkdirResult(d) == "present"

Mkdir ==
    /\ pc = "mkdir"
    /\ IF out_dir = "blocked"
       THEN Raise("open", "mkdir") /\ UNCHANGED out_dir
       ELSE Continue("open") /\ out_dir' = MkdirResult(out_dir)
    /\ UNCHANGED <<source_file, files, unwritable, i, img, run, written, before>>
    /\ UNCHANGED resize_vars

\* img = Image.open(source): reads the header only, the pixels are decoded
\* on first use
Open ==
    /\ pc = "open"
    /\ IF source_file.kind = "image"
       THEN /\ Continue("convert")
            /\ img' = << [width  |-> source_file.width,
                          height |-> source_file.height,
                          mode   |-> source_file.mode,
                          loaded |-> FALSE] >>
       ELSE Raise("convert", "decode") /\ UNCHANGED img
    /\ UNCHANGED <<source_file, out_dir, files, unwritable, i, run, written, before>>
    /\ UNCHANGED resize_vars

\* if img.mode != 'RGBA': img = img.convert('RGBA')
Convert ==
    /\ pc = "convert"
    /\ IF img[1].mode = "RGBA"
       THEN Continue("generate") /\ UNCHANGED img
       ELSE IF source_file.truncated
            THEN Raise("generate", "decode") /\ UNCHANGED img
            ELSE /\ Continue("generate")
                 /\ img' = << [img[1] EXCEPT !.mode = "RGBA", !.loaded = TRUE] >>
    /\ UNCHANGED <<source_file, out_dir, files, unwritable, i, run, written, before>>
    /\ UNCHANGED resize_vars

\* image.resize decodes the pixels of an image not decoded yet
NeedsDecode == ~img[1].loaded

Decoded == << [img[1] EXCEPT !.loaded = TRUE] >>

\* (mutant) the file opened for appending: earlier frames are kept
SaveFile_Appends(fs, name, content) ==
    [fs EXCEPT ![name] =
        [content EXCEPT !.frames =
            (IF fs[name].format \in {"PNG", "ICO"} THEN fs[name].frames ELSE <<>>)
                \o content.frames]]

\* save to path: opening the file for writing fails when it cannot be written
SaveFile(fs, name, content) == [fs EXCEPT ![name] = content]

\* one iteration of: for filename, size in sizes.items()
Generate ==
    /\ pc = "generate"
    /\ i <= Len(sizes)
    /\ LET filename == sizes[i].filename
           nxt      == IF i = Len(sizes) THEN "favicon" ELSE "generate"
       IN  IF NeedsDecode /\ source_file.truncated
           THEN Raise(nxt, "decode") /\ UNCHANGED <<img, files, written, i>>
           ELSE LET resized == resize_with_padding(img[1], sizes[i].size)
                IN  /\ img' = Decoded
                    /\ IF resized.raised
                       THEN Raise(nxt, "resize") /\ UNCHANGED <<files, written, i>>
                       ELSE IF filename \in unwritable
                            THEN Raise(nxt, "write") /\ UNCHANGED <<files, written, i>>
                            ELSE /\ files' = SaveFile(files, filename, PngFile(resized.result))
                                 /\ written' = written \cup {filename}
                                 /\ i' = i + 1
                                 /\ Continue(nxt)
    /\ UNCHANGED <<source_file, out_dir, unwritable, run, before>>
    /\ UNCHANGED resize_vars

\* favicon_images = [resize_with_padding(img, size) for size in favicon_sizes]
\* favicon_images[0].save(output / 'favicon.ico', format='ICO', sizes=..., append_images=favicon_images[1:])
Favicon ==
    /\ pc = "favicon"
    /\ IF NeedsDecode /\ source_file.truncated
       THEN Raise("report", "decode") /\ UNCHANGED <<img, files, written>>
       ELSE LET favicon_images ==
                    [k \in 1..Len(favicon_sizes) |->
                        resize_with_padding(img[1], favicon_sizes[k])]
            IN  /\ img' = Decoded
                /\ IF \E k \in 1..Len(favicon_sizes) : favicon_images[k].raised
                   THEN Raise("report", "resize") /\ UNCHANGED <<files, written>>
                   ELSE IF FaviconName \in unwritable
                        THEN Raise("report", "write") /\ UNCHANGED <<files, written>>
                        ELSE /\ files' = SaveFile(files, FaviconName,
                                            IcoFile(favicon_images[1].result,
                                                    [k \in 1..Len(favicon_images) |->
                                                        << favicon_images[k].result.width,
                                                           favicon_images[k].result.height >>],
                                                    [k \in 1..(Len(favicon_images) - 1) |->
                                                        favicon_images[k + 1].result]))
                             /\ written' = written \cup {FaviconName}
                             /\ Continue("report")
    /\ UNCHANGED <<source_file, out_dir, unwritable, i, run, before>>
    /\ UNCHANGED resize_vars

\* the closing report, after which the script ends normally
Report ==
    /\ pc = "report"
    /\ pc' = "exited"
    /\ exit_status' = <<0>>
    /\ UNCHANGED <<source_file, out_dir, files, unwritable, i, img, error, run, written, before>>
    /\ UNCHANGED resize_vars

MaxRuns == 2

\* the script is started again on the same source, the filesystem as the
\* previous run left it
StartAgain ==
    /\ pc = "exited"
    /\ run < MaxRuns
    /\ run' = run + 1
    /\ before' = [files |-> files, out_dir |-> out_dir]
    /\ pc' = "mkdir"
    /\ i' = 1
    /\ img' = <<>>
    /\ exit_status' = <<>>
    /\ error' = "none"
    /\ written' = {}
    /\ UNCHANGED <<source_file, out_dir, files, unwritable>>
    /\ UNCHANGED resize_vars

\* the source images tried: square, wide, and two so flat that a scaled
\* height truncates to 0 (at every target, and at the favicon sizes only)
SourceSizes == { <<100, 100>>, <<1000, 500>>, <<1000, 1>>, <<100, 1>> }

SourceFiles ==
    { [kind |-> "missing"], [kind |-> "unrecognized"] }
    \cup { [kind |-> "image", width |-> sz[1], height |-> sz[2],
            mode |-> m, truncated |-> t] :
              sz \in SourceSizes, m \in {"RGB", "RGBA"}, t \in BOOLEAN }

\* at most one output path that cannot be opened for writing
Unwritables == {{}} \cup {{f} : f \in FileNames}

Init ==
    /\ image = [width |-> 1, height |-> 1]
    /\ target_size = <<1, 1>>
    /\ rz = [called |-> FALSE]
    /\ source_file \in SourceFiles
    /\ out_dir \in {"absent", "present", "blocked"}
    /\ \E stale \in SUBSET FileNames :
          /\ out_dir = "present" \/ stale = {}
          /\ files = [f \in FileNames |-> IF f \in stale THEN Stale ELSE Absent]
    /\ unwritable \in Unwritables
    /\ out_dir = "present" \/ unwritable = {}
    /\ pc = "mkdir"
    /\ i = 1
    /\ img = <<>>
    /\ exit_status = <<>>
    /\ error = "none"
    /\ run = 1
    /\ written = {}
    /\ before = [files |-> files, out_dir |-> out_dir]

Next ==
    \/ Mkdir
    \/ Open
    \/ Convert
    \/ Generate
    \/ Favicon
    \/ Report
    \/ StartAgain

Spec == Init /\ [][Next]_vars

(***************************************************************************)
(* Properties of resize_with_padding, checked under SpecResize.            *)
(***************************************************************************)
sw == image.width
sh == image.height
tw == target_size[1]
th == target_size[2]

\* the source is relatively wider than the target: sw / sh > tw / th
Wider == sw * th > tw * sh

Returned == rz.called /\ ~rz.out.raised

\* C1: whenever resize_with_padding returns a canvas, the canvas has exactly
\* the requested target size, whatever the source's aspect ratio.
C1_CanvasHasTargetSize ==
    Returned =>
        /\ rz.out.result.width = tw
        /\ rz.out.result.height = th

\* a canvas was returned for a source that needed padding
C1_Witness ==
    /\ Returned
    /\ rz.out.new_height < th
    /\ rz.out.result.width = tw
    /\ rz.out.result.height = th

\* C2: the scaled size fits the target on both axes and meets it on at least
\* one; the paste offsets are non-negative and the pasted box, of the scaled
\* size, lies inside the canvas.
C2_ScaledCopyFits ==
    rz.called =>
        /\ rz.out.new_width <= tw
        /\ rz.out.new_height <= th
        /\ rz.out.new_width = tw \/ rz.out.new_height = th
        /\ ~rz.out.raised =>
              /\ rz.out.paste_x >= 0
              /\ rz.out.paste_y >= 0
              /\ rz.out.result.box[1] = rz.out.paste_x
              /\ rz.out.result.box[2] = rz.out.paste_y
              /\ rz.out.result.box[3] = rz.out.paste_x + rz.out.new_width
              /\ rz.out.result.box[4] = rz.out.paste_y + rz.out.new_height
              /\ rz.out.result.box[3] <= rz.out.result.width
              /\ rz.out.result.box[4] <= rz.out.result.height

\* a copy narrower than the canvas was pasted at a positive offset
C2_Witness ==
    /\ Returned
    /\ rz.out.new_width < tw
    /\ rz.out.new_height = th
    /\ rz.out.paste_x > 0

\* n / d rounded to the nearest integer (ties to even, as Python's round)
RoundNearest(n, d) ==
    IF 2 * (n % d) > d \/ (2 * (n % d) = d /\ (n \div d) % 2 = 1)
    THEN n \div d + 1
    ELSE n \div d

\* C3 as claimed: the scaled dimension is the exact quotient rounded to the
\* nearest integer.
C3_RoundsToNearest ==
    rz.called =>
        IF Wider
        THEN /\ rz.out.new_width = tw
             /\ rz.out.new_height = RoundNearest(tw * sh, sw)
        ELSE /\ rz.out.new_height = th
             /\ rz.out.new_width = RoundNearest(th * sw, sh)

\* v is n / d truncated toward zero as the floating-point computation
\* yields it: floor(n / d), or one less when n / d is an exact integer
TruncatedQuotient(v, n, d) ==
    IF n % d = 0 THEN v \in {n \div d, n \div d - 1} ELSE v = n \div d

\* C3: when the source is relatively wider than the target, new_width is tw
\* and new_height is tw / (sw / sh) truncated toward zero; otherwise
\* new_height is th and new_width is th * (sw / sh) truncated toward zero.
\* The truncated value is the floor of the exact quotient, except that an
\* exactly integral quotient k may come out as k - 1.
C3_Truncates ==
    rz.called =>
        IF Wider
        THEN /\ rz.out.new_width = tw
             /\ TruncatedQuotient(rz.out.new_height, tw * sh, sw)
        ELSE /\ rz.out.new_height = th
             /\ TruncatedQuotient(rz.out.new_width, th * sw, sh)

\* a wider source whose exact scaled height has a fraction above one half,
\* so that truncation and rounding differ
C3_Witness ==
    /\ rz.called
    /\ Wider
    /\ 2 * ((tw * sh) % sw) > sw
    /\ rz.out.new_height = (tw * sh) \div sw

\* C4: a source whose aspect ratio equals the target's is scaled to exactly
\* the target size and pasted at (0, 0).
C4_EqualRatioFillsCanvas ==
    (rz.called /\ sw * th = sh * tw) =>
        /\ ~rz.out.raised
        /\ rz.out.new_width = tw
        /\ rz.out.new_height = th
        /\ rz.out.paste_x = 0
        /\ rz.out.paste_y = 0

Abs(x) == IF x < 0 THEN -x ELSE x

\* C5: whenever a canvas is returned, a relatively wider source has no
\* horizontal padding and top and bottom padding differing by at most 1; any
\* other source has no vertical padding and left and right padding differing
\* by at most 1.  A 1000x500 source at 192x192 gives a 192x96 region in rows
\* 48 to 143.
C5_PaddingOnOneAxis ==
    /\ Returned =>
          IF Wider
          THEN /\ rz.out.new_width = tw
               /\ rz.out.paste_x = 0
               /\ Abs(rz.out.paste_y - (th - rz.out.new_height - rz.out.paste_y)) <= 1
          ELSE /\ rz.out.new_height = th
               /\ rz.out.paste_y = 0
               /\ Abs(rz.out.paste_x - (tw - rz.out.new_width - rz.out.paste_x)) <= 1
    /\ (rz.called /\ sw = 1000 /\ sh = 500 /\ tw = 192 /\ th = 192) =>
          /\ ~rz.out.raised
          /\ rz.out.new_width = 192
          /\ rz.out.new_height = 96
          /\ rz.out.result.box = <<0, 48, 192, 144>>

\* the 1000x500 source was resized for the 192x192 target
C5_Witness ==
    /\ Returned
    /\ sw = 1000 /\ sh = 500 /\ tw = 192 /\ th = 192
    /\ rz.out.paste_y = 48

\* C6: when new_width or new_height computes to 0 the call does not crash: it
\* still returns a canvas of the target size.
C6_DegenerateSourceDoesNotCrash ==
    (rz.called /\ (rz.out.new_width = 0 \/ rz.out.new_height = 0)) =>
        /\ ~rz.out.raised
        /\ rz.out.result.width = tw
        /\ rz.out.result.height = th

(***************************************************************************)
(* Properties of the runs of generate_icons, checked under Spec.           *)
(***************************************************************************)
Succeeded == pc = "exited" /\ exit_status = <<0>>

Failed == error # "none"

\* the frame sizes of a written file
FrameSizes(file) ==
    [k \in 1..Len(file.frames) |-> <<file.frames[k].width, file.frames[k].height>>]

\* C7: a run that ends in success has written icon-192.png from a 192x192
\* canvas, icon-512.png from a 512x512 canvas, apple-touch-icon.png from a
\* 180x180 canvas, and favicon.ico with exactly the three frames 16x16,
\* 32x32 and 48x48, the 16x16 canvas first.
C7_SuccessWritesAllFour ==
    Succeeded =>
        /\ written = FileNames
        /\ \A k \in 1..Len(sizes) :
              /\ files[sizes[k].filename].format = "PNG"
              /\ FrameSizes(files[sizes[k].filename]) = <<sizes[k].size>>
        /\ files[FaviconName].format = "ICO"
        /\ FrameSizes(files[FaviconName]) = favicon_sizes

\* the output files in the order the run writes them
WriteOrder == [k \in 1..(Len(sizes) + 1) |->
                  IF k <= Len(sizes) THEN sizes[k].filename ELSE FaviconName]

\* C8 (state part): a failed run has ended with exit status 1; what it wrote
\* before failing is a prefix of the write order and is still on disk as
\* written; every other output file is as it was before the run.
C8_FailedRunState ==
    Failed =>
        /\ pc = "exited"
        /\ exit_status = <<1>>
        /\ \E n \in 0..Len(WriteOrder) : written = {WriteOrder[k] : k \in 1..n}
        /\ \A f \in written : files[f].format \in {"PNG", "ICO"}
        /\ \A f \in FileNames \ written : files[f] = before.files[f]

\* C8: any failure ends the run at once with a nonzero exit status; within
\* the failed run no step runs afterwards, so no further file is written,
\* nothing is retried, and the files written earlier stay as they are.
C8_FailureIsFatal ==
    /\ []C8_FailedRunState
    /\ [][(Failed /\ run' = run) => UNCHANGED <<files, written, pc, i, out_dir>>]_vars

\* a run failed on a write after earlier files had been written
C8_Witness ==
    /\ error = "write"
    /\ written # {}
    /\ exit_status = <<1>>

\* C9: when a second (or later) run on the same source has ended, the output
\* files are exactly as the previous run left them.
C9_SecondRunSameFiles ==
    (pc = "exited" /\ run >= 2) => files = before.files

\* a second run wrote all four files over those of the first
C9_Witness ==
    /\ pc = "exited"
    /\ run = 2
    /\ written = FileNames
    /\ files = before.files

\* C10: the output directory exists from the moment the source is opened;
\* a run that failed with a decode error has created the directory and has
\* written or changed none of the output files.
C10_DirBeforeOpen ==
    /\ (pc \in {"convert", "generate", "favicon", "report"} \/ img # <<>>) =>
          out_dir = "present"
    /\ error = "decode" =>
          /\ out_dir = "present"
          /\ written = {}
          /\ files = before.files

\* a run on a missing source failed after creating the absent directory
C10_Witness ==
    /\ error = "decode"
    /\ source_file.kind = "missing"
    /\ before.out_dir = "absent"
    /\ out_dir = "present"

====
